---- MODULE Spec2Model ----
(***************************************************************************)
(* The stock-analysis chat application: the agent loop of StockAgent       *)
(* (services/agent, the fallback variant) driven by the App component.     *)
(*                                                                         *)
(* JavaScript runs one task at a time: code between two awaits is one      *)
(* uninterrupted segment.  Every run of handleSendMessage is an activation *)
(* record runs[r] with a program counter; cur names the activation that is *)
(* executing a segment (0: the event loop is idle, and only then may a     *)
(* user event, a promise resolution or a timer fire).                      *)
(***************************************************************************)
EXTENDS Integers, Sequences, FiniteSets, TLC

-----------------------------------------------------------------------------
(* Bounds of the exploration.  A behaviour is explored under one of two    *)
(* budgets, chosen in Init: a single user action whose run may use one     *)
(* model request more than the iteration cap allows, or several user       *)
(* actions with few model requests.                                        *)

\* user actions that start something: messages sent and sessions opened
MaxActions == 2
\* requests sent to the model transport when several actions are taken
MaxModelCalls == 2
\* tool-call parts the model requests when several actions are taken
MaxToolCalls == 2

-----------------------------------------------------------------------------
(* Program constants *)

MAX_ITERATIONS == 5

\* private models = ['gemini-2.0-flash', 'gemini-1.5-flash']
models == <<"gemini-2.0-flash", "gemini-1.5-flash">>

\* faulty variant of toolsImplementation: every name the model sends is
\* served
toolsImplementationForAnyName == {"get_stock_market_data", "unknown_tool"}

\* const toolsImplementation = { 'get_stock_market_data': getStockMarketData }
toolsImplementation == {"get_stock_market_data"}

\* "我已处理该请求。" (I have processed the request)
FallbackText == <<"request-processed">>
\* "处理您的请求时遇到错误。" (generic processing error)
MsgGeneric == <<"error-while-processing">>
\* "所有可用模型的免费配额均已耗尽。..." (all configured models exhausted)
MsgAllExhausted == <<"all-models-exhausted">>
\* "API 配额已耗尽。请稍后再试。" (quota exhausted)
MsgQuota == <<"quota-exhausted">>
\* "配置的模型不可用。" (configured model unavailable)
MsgModelUnavailable == <<"model-unavailable">>
\* faulty variant of StopMarker: nothing is appended
StopMarkerEmpty == <<>>
\* "🚫 *已停止生成*" (generation stopped)
MsgStopped == <<"generation-stopped">>
\* the welcome message of a new session
MsgWelcome == <<"welcome">>
\* " ... (已停止)" appended to a truncated message
StopMarker == <<" ... (stopped)">>

-----------------------------------------------------------------------------
(* Data: texts are sequences of tokens, so that concatenation and          *)
(* truncation are the sequence operations.                                  *)

Last(s) == s[Len(s)]

RECURSIVE Join(_)
\* Array.prototype.join(''): the texts of a list, concatenated in order
Join(ts) == IF ts = <<>> THEN <<>> ELSE Head(ts) \o Join(Tail(ts))

\* Part of the genai SDK: a text part or a functionCall part
\* (symbol: args.symbol of a call; result: response.result.symbol of a response)
TextPart(t) ==
  [kind |-> "text", text |-> t, name |-> "", id |-> "", symbol |-> "",
   result |-> ""]
CallPart(n, i, s) ==
  [kind |-> "functionCall", text |-> <<>>, name |-> n, id |-> i, symbol |-> s,
   result |-> ""]
\* faulty variant of ResponsePart: the id of the call is not copied
ResponsePartWithoutId(n, i, res) ==
  [kind |-> "functionResponse", text |-> <<>>, name |-> n, id |-> "",
   symbol |-> "", result |-> res]

\* { functionResponse: { name, id, response: { result } } }
ResponsePart(n, i, res) ==
  [kind |-> "functionResponse", text |-> <<>>, name |-> n, id |-> i,
   symbol |-> "", result |-> res]

\* Content: a turn of the history; the tool-result turn is pushed without role
Turn(role, parts) == [role |-> role, parts |-> parts]

\* Message of types.ts, with the shouldAnimate hint the agent sets
Msg(role, content, stockData, animate) ==
  [role |-> role, content |-> content, stockData |-> stockData,
   shouldAnimate |-> animate]

\* symbol.toUpperCase() in generateStockData
UpperTable == [s \in {"tsla", "TSLA", "f", "F"} |->
                 IF s \in {"tsla", "TSLA"} THEN "TSLA" ELSE "F"]
toUpperCase(s) == UpperTable[s]

\* fnArgs.symbol is undefined when the model leaves the argument out
NoSymbol == "undefined"

-----------------------------------------------------------------------------
(* Errors: name, numeric status and code (0: absent) and the markers the   *)
(* message text contains (message.includes(m) is m \in message).            *)

Err(n, st, cd, msg) == [name |-> n, status |-> st, code |-> cd, message |-> msg]
NullError == Err("null", 0, 0, {})
AbortError == Err("AbortError", 0, 0, {"Aborted"})
NoContentError == Err("Error", 0, 0, {"No content received from model"})
AllFailedError == Err("Error", 0, 0, {"All models failed"})
\* symbol.toUpperCase() on undefined
ToolTypeError == Err("TypeError", 0, 0, {"Cannot read properties of undefined"})

\* failures of ai.models.generateContent the transport may reject with:
\* rate limit, overload, quota text, model not found, overload given as
\* code, model not found with a text that mentions the quota
TransportErrors ==
  { Err("ApiError", 429, 0, {}),
    Err("ApiError", 503, 0, {}),
    Err("ApiError", 0, 0, {"quota"}),
    Err("ApiError", 404, 0, {}),
    Err("ApiError", 0, 503, {}),
    Err("ApiError", 404, 0, {"quota"}) }

\* replies of ai.models.generateContent: hasContent is whether
\* candidates[0].content exists, parts are the parts of that content
Reply(parts) == [hasContent |-> TRUE, parts |-> parts]
NoContentReply == [hasContent |-> FALSE, parts |-> <<>>]
ModelReplies ==
  { NoContentReply,
    Reply(<<TextPart(<<>>)>>),
    Reply(<<TextPart(<<"a">>), TextPart(<<>>), TextPart(<<"b">>)>>),
    Reply(<<CallPart("get_stock_market_data", "c1", "tsla")>>),
    Reply(<<TextPart(<<"a">>),
            CallPart("get_stock_market_data", "c1", "TSLA"),
            CallPart("get_stock_market_data", "c2", "f")>>),
    Reply(<<CallPart("unknown_tool", "c1", "tsla")>>),
    Reply(<<CallPart("unknown_tool", "c1", "f"),
            CallPart("get_stock_market_data", "c2", "tsla")>>),
    Reply(<<CallPart("get_stock_market_data", "c1", "f"),
            CallPart("get_stock_market_data", "c2", NoSymbol)>>),
    Reply(<<CallPart("get_stock_market_data", "c1", "f"),
            CallPart("get_stock_market_data", "c2", NoSymbol),
            CallPart("get_stock_market_data", "c3", "tsla")>>) }

IsCall(p) == p.kind = "functionCall"
IsText(p) == p.kind = "text" /\ p.text # <<>>

\* parts.filter(p => p.functionCall)
ToolCallsOf(parts) == SelectSeq(parts, IsCall)

\* parts.filter(p => p.text).map(p => p.text).join('')
TextPartsOf(parts) ==
  LET kept == SelectSeq(parts, IsText)
  IN  Join([i \in 1..Len(kept) |-> kept[i].text])


\* this.history[this.history.length - 1] = turn: on an empty array the write
\* sets the property "-1" and leaves the elements alone
SetLast(h, turn) == IF Len(h) = 0 THEN h ELSE [h EXCEPT ![Len(h)] = turn]

\* the rate-limit test of generateContentWithFallback
isRateLimit(error) ==
  \/ error.status = 429
  \/ error.code = 429
  \/ "429" \in error.message
  \/ "quota" \in error.message

\* the overload test of generateContentWithFallback
isOverloaded(error) ==
  \/ error.status = 503
  \/ "503" \in error.message

\* faulty variant of ErrorMessage: every error is reported as quota exhaustion
ErrorMessageAlwaysQuota(error) == MsgQuota

\* the user-facing text runConversation's catch selects
ErrorMessage(error) ==
  IF error.status = 429 \/ "429" \in error.message THEN MsgAllExhausted
  ELSE IF "quota" \in error.message THEN MsgQuota
  ELSE IF error.status = 404 THEN MsgModelUnavailable
  ELSE MsgGeneric

\* faulty variant of ToolSummary: the symbols are left out
ToolSummaryWithoutSymbols(results) == <<"fetched", "data">>

\* `已获取 ${toolResultsForUI.map(t => t.symbol).join(', ')} 的数据`
ToolSummary(results) == <<"fetched">> \o results \o <<"data">>

\* the text the user types for the r-th message
UserText(r) == << <<"q1">>, <<"q2">>, <<"q3">>, <<"q4">> >>[r]

\* ChatSession: the sessions parsed from localStorage at mount, which the
\* sidebar offers; they are stored without shouldAnimate
Session(id, ms) == [id |-> id, messages |-> ms]
StoredSessions ==
  { Session(-1, << Msg("user", <<"AAPL?">>, <<>>, FALSE),
                   Msg("model", <<"Apple is at $150">>, <<>>, FALSE) >>),
    Session(-2, << Msg("model", MsgWelcome, <<>>, FALSE),
                   Msg("user", <<"q0">>, <<>>, FALSE),
                   Msg("tool", ToolSummary(<<"TSLA">>), <<"TSLA">>, FALSE),
                   Msg("model", MsgStopped, <<>>, FALSE) >>) }

\* session.messages.map(m => ({ ...m, shouldAnimate: false }))
WithoutAnimation(ms) ==
  [i \in 1..Len(ms) |-> [ms[i] EXCEPT !.shouldAnimate = FALSE]]

IsNotToolMessage(m) == m.role # "tool"

\* faulty variant of setHistory: the tool messages are seeded too
setHistoryWithTools(ms) ==
  [i \in 1..Len(ms) |->
     Turn(IF ms[i].role = "user" THEN "user" ELSE "model",
          <<TextPart(ms[i].content)>>)]

\* the messages setHistory keeps: messages.filter(m => m.role !== Role.TOOL)
KeptMessages(ms) == SelectSeq(ms, IsNotToolMessage)

\* StockAgent.setHistory: the value it assigns to this.history
setHistory(ms) ==
  LET kept == KeptMessages(ms)
  IN  [i \in 1..Len(kept) |->
         Turn(IF kept[i].role = "user" THEN "user" ELSE "model",
              <<TextPart(kept[i].content)>>)]

-----------------------------------------------------------------------------
VARIABLES
  history,             \* StockAgent.history
  runs,                \* activation records of handleSendMessage/runConversation
  nruns,               \* activations started so far
  cur,                 \* the activation executing a segment, 0 when none
  status,              \* App state: status
  messages,            \* App state: messages of the current session
  abortControllerRef,  \* App ref: 0 (null) or the run whose controller it holds
  currentSessionId,    \* App state: number of the current session
  budget,              \* what the behaviour may still use: user actions,
                       \* model requests, tool-call parts
  retry                \* the call of generateContentWithRetry of the earlier
                       \* variant of the agent (idle in the fallback variant)

appVars == <<history, runs, nruns, cur, status, messages, abortControllerRef,
             currentSessionId, budget>>

vars == <<history, runs, nruns, cur, status, messages, abortControllerRef,
          currentSessionId, budget, retry>>

\* a call of generateContentWithRetry: its position, the attempt parameter
\* of the innermost invocation, the error it threw, and the logs of the
\* models requested, the errors caught and the delays taken
RetryCall(pc, attempt) ==
  [pc |-> pc, attempt |-> attempt, error |-> NullError,
   requests |-> <<>>, errors |-> <<>>, delays |-> <<>>]

Runs == 1..MaxActions

\* an activation before handleSendMessage creates it
NewRun ==
  [ pc |-> "unborn",
    aborted |-> FALSE,              \* controller.signal.aborted
    session |-> 0,                  \* session in which the message was sent
    userText |-> <<>>,
    newMessages |-> <<>>,
    turnComplete |-> FALSE,
    iteration |-> 0,
    modelIdx |-> 0,                 \* position of the for-of over this.models
    lastError |-> NullError,
    error |-> NullError,            \* the error in flight (thrown, not yet handled)
    result |-> NoContentReply,      \* what generateContent resolved with
    modelUsed |-> "",
    responseContent |-> Turn("", <<>>),
    toolCalls |-> <<>>,
    callIdx |-> 0,                  \* position of the for-of over toolCalls
    functionResponsesParts |-> <<>>,
    toolResultsForUI |-> <<>>,
    attempts |-> <<>>,              \* log: attempts of the current invoker call
    seen |-> <<>>,                  \* log: replies the invoker returned to the loop
    caught |-> <<>>,                \* log: errors the per-iteration catch handled
    failed |-> FALSE,               \* log: the catch handled an error
    notified |-> <<>>,              \* log: the statuses passed to onStatusUpdate
    abortedAt |-> "",               \* log: the checkpoint that honoured the abort
    outcome |-> "" ]                \* log: "returned" or "threw"

Budget(a, c, t) == [actions |-> a, calls |-> c, tools |-> t]
Budgets == { Budget(1, MAX_ITERATIONS + 1, MAX_ITERATIONS + 1),
             Budget(MaxActions, MaxModelCalls, MaxToolCalls) }

Init ==
  /\ history = <<>>
  /\ runs = [r \in Runs |-> NewRun]
  /\ nruns = 0
  /\ cur = 0
  /\ status = "idle"
  /\ messages = <<Msg("model", MsgWelcome, <<>>, FALSE)>>
  /\ abortControllerRef = 0
  /\ currentSessionId = 0
  /\ budget \in Budgets
  /\ retry = RetryCall("idle", 0)

\* one attempt of the invoker, as the log keeps it
Attempt(model, ok, error, reply) ==
  [model |-> model, ok |-> ok, error |-> error, reply |-> reply]


-----------------------------------------------------------------------------
(* Faulty variants of the decisions below. Each property that depends on   *)
(* a decision is violated when the decision is replaced by its variant.    *)

\* the loop runs one iteration past the cap
LoopContinuesPastCap(run) ==
  ~run.turnComplete /\ run.iteration <= MAX_ITERATIONS

\* the loop test forgets turnComplete
LoopContinuesAfterAnswer(run) == run.iteration < MAX_ITERATIONS

\* the checkpoints ignore the signal
AbortNeverRequested(run) == FALSE

\* every failure on a candidate that is not the last one is followed by the
\* next candidate
SwitchToFallbackOnAnyError(error, model) == model # models[Len(models)]

\* the next candidate is the one that just failed
NextCandidateSame(i) == i

\* the invoker throws the error of its first attempt
RethrownFirst(run) == run.attempts[1].error

\* every iteration announces itself as the first
IterationStatusThinking(iteration) == "thinking"

\* the catch treats the abort like any other error
IsAbortErrorNever(error) == FALSE

\* the catch leaves the loop running
TurnCompleteAfterErrorUnset == FALSE

\* the final answer has no fallback text
FinalAnswerTextNoFallback(parts) == TextPartsOf(parts)

-----------------------------------------------------------------------------
\* while (!turnComplete && iteration < MAX_ITERATIONS)
LoopContinues(run) == ~run.turnComplete /\ run.iteration < MAX_ITERATIONS

\* iteration === 1 ? 'thinking' : 'analyzing_tool_data'
IterationStatus(iteration) ==
  IF iteration = 1 THEN "thinking" ELSE "analyzing_tool_data"

\* if (signal?.aborted) throw new DOMException('Aborted', 'AbortError')
AbortRequested(run) == run.aborted

\* (isRateLimit || isOverloaded) && model !== this.models[this.models.length - 1]
SwitchToFallback(error, model) ==
  (isRateLimit(error) \/ isOverloaded(error)) /\ model # models[Len(models)]

\* for (const model of this.models): the candidate after position i
NextCandidate(i) == i + 1

\* throw error, in the catch of generateContentWithFallback
Rethrown(run) == run.error

\* if (error.name === 'AbortError') throw error
IsAbortError(error) == error.name = "AbortError"

\* turnComplete = true, in the catch of runConversation
TurnCompleteAfterError == TRUE

\* content: textParts || "我已处理该请求。"
FinalAnswerText(parts) ==
  IF TextPartsOf(parts) = <<>> THEN FallbackText ELSE TextPartsOf(parts)

(* handleSendMessage up to its await: the user message, the controller and  *)
(* the synchronous start of agent.runConversation (the user turn and the    *)
(* abort check before the loop)                                             *)
HandleSendMessage ==
  /\ cur = 0
  /\ UNCHANGED retry
  /\ status = "idle"
  /\ budget.actions > 0
  /\ budget' = [budget EXCEPT !.actions = @ - 1]
  /\ LET r == nruns + 1
         run == [NewRun EXCEPT !.userText = UserText(r),
                               !.session = currentSessionId]
     IN
       /\ nruns' = r
       /\ messages' = Append(messages, Msg("user", UserText(r), <<>>, FALSE))
       /\ status' = "thinking"
       /\ abortControllerRef' = r
       /\ history' = Append(history, Turn("user", <<TextPart(UserText(r))>>))
       /\ runs' = [runs EXCEPT ![r] =
            IF AbortRequested(run)
            THEN [run EXCEPT !.pc = "app_catch", !.error = AbortError,
                             !.abortedAt = "start"]
            ELSE [run EXCEPT !.pc = "loop"]]
       /\ cur' = r
  /\ UNCHANGED currentSessionId

(* the loop condition, the abort check at the top of an iteration, the      *)
(* status notification and the entry into generateContentWithFallback       *)
LoopHead(r) ==
  /\ cur = r
  /\ UNCHANGED retry
  /\ runs[r].pc = "loop"
  /\ IF LoopContinues(runs[r])
     THEN IF AbortRequested(runs[r])
          THEN /\ runs' = [runs EXCEPT ![r] =
                            [@ EXCEPT !.pc = "app_catch", !.error = AbortError,
                                      !.abortedAt = "loop"]]
               /\ UNCHANGED status
          ELSE /\ runs' = [runs EXCEPT ![r] =
                            [@ EXCEPT !.pc = "try_model",
                                      !.iteration = @ + 1,
                                      !.modelIdx = 1,
                                      !.lastError = NullError,
                                      !.attempts = <<>>,
                                      !.notified =
                                         Append(@, IterationStatus(
                                                     runs[r].iteration + 1))]]
               /\ status' = IterationStatus(runs[r].iteration + 1)
     ELSE /\ runs' = [runs EXCEPT ![r] = [@ EXCEPT !.pc = "return"]]
          /\ UNCHANGED status
  /\ UNCHANGED <<history, nruns, cur, messages, abortControllerRef,
                 currentSessionId, budget>>

(* the for-of over this.models: issue the request to the next candidate, or *)
(* leave the loop and throw lastError                                       *)
TryModel(r) ==
  /\ cur = r
  /\ UNCHANGED retry
  /\ runs[r].pc = "try_model"
  /\ IF runs[r].modelIdx > Len(models)
     THEN /\ runs' = [runs EXCEPT ![r] =
                       [@ EXCEPT !.pc = "catch",
                                 !.error = IF runs[r].lastError # NullError
                                           THEN runs[r].lastError
                                           ELSE AllFailedError]]
          /\ cur' = r
          /\ UNCHANGED budget
     ELSE /\ budget.calls > 0
          /\ budget' = [budget EXCEPT !.calls = @ - 1]
          /\ runs' = [runs EXCEPT ![r] = [@ EXCEPT !.pc = "await_model"]]
          /\ cur' = 0
  /\ UNCHANGED <<history, nruns, status, messages, abortControllerRef,
                 currentSessionId>>

(* ai.models.generateContent resolves: generateContentWithFallback returns  *)
ModelResolve(r, reply) ==
  /\ cur = 0
  /\ UNCHANGED retry
  /\ runs[r].pc = "await_model"
  /\ Len(ToolCallsOf(reply.parts)) <= budget.tools
  /\ budget' = [budget EXCEPT !.tools = @ - Len(ToolCallsOf(reply.parts))]
  /\ runs' = [runs EXCEPT ![r] =
        [@ EXCEPT !.pc = "after_model",
                  !.result = reply,
                  !.modelUsed = models[runs[r].modelIdx],
                  !.attempts = Append(@, Attempt(models[runs[r].modelIdx],
                                                 TRUE, NullError, reply)),
                  !.seen = Append(@, reply)]]
  /\ cur' = r
  /\ UNCHANGED <<history, nruns, status, messages, abortControllerRef,
                 currentSessionId>>

(* ai.models.generateContent rejects: the catch of                         *)
(* generateContentWithFallback waits for the cool-down or throws            *)
ModelReject(r, e) ==
  /\ cur = 0
  /\ UNCHANGED retry
  /\ runs[r].pc = "await_model"
  /\ LET run == [runs[r] EXCEPT
                   !.error = e,
                   !.lastError = e,
                   !.attempts = Append(@, Attempt(models[runs[r].modelIdx],
                                                  FALSE, e, NoContentReply))]
     IN
     IF SwitchToFallback(e, models[run.modelIdx])
     THEN /\ runs' = [runs EXCEPT ![r] =
                       [run EXCEPT !.pc = "await_delay", !.error = NullError]]
          /\ cur' = 0
     ELSE /\ runs' = [runs EXCEPT ![r] =
                       [run EXCEPT !.pc = "catch", !.error = Rethrown(run)]]
          /\ cur' = r
  /\ UNCHANGED <<history, nruns, status, messages, abortControllerRef,
                 currentSessionId, budget>>

(* the cool-down delay(1000) ends: continue with the next candidate *)
DelayDone(r) ==
  /\ cur = 0
  /\ UNCHANGED retry
  /\ runs[r].pc = "await_delay"
  /\ runs' = [runs EXCEPT ![r] =
        [@ EXCEPT !.pc = "try_model", !.modelIdx = NextCandidate(@)]]
  /\ cur' = r
  /\ UNCHANGED <<history, nruns, status, messages, abortControllerRef,
                 currentSessionId, budget>>


\* generateContentWithFallback has returned or thrown: its locals, its result
\* and the log of its attempts are dead
Returned(run) ==
  [run EXCEPT !.modelIdx = 0, !.lastError = NullError, !.modelUsed = "",
              !.result = NoContentReply, !.attempts = <<>>]

(* runConversation after the invoker returned: the abort check, the empty-  *)
(* response check, the model turn and the choice between tools and answer   *)
AfterModel(r) ==
  /\ cur = r
  /\ UNCHANGED retry
  /\ runs[r].pc = "after_model"
  /\ LET parts == runs[r].result.parts
         responseContent == Turn("model", parts)
         toolCalls == ToolCallsOf(parts)
     IN
     IF AbortRequested(runs[r])
     THEN /\ runs' = [runs EXCEPT ![r] =
                       [Returned(@) EXCEPT !.pc = "catch", !.error = AbortError,
                                           !.abortedAt = "after_model"]]
          /\ UNCHANGED <<history, status>>
     ELSE IF ~runs[r].result.hasContent
     THEN /\ runs' = [runs EXCEPT ![r] =
                       [Returned(@) EXCEPT !.pc = "catch",
                                           !.error = NoContentError]]
          /\ UNCHANGED <<history, status>>
     ELSE /\ history' = Append(history, responseContent)
          /\ IF Len(toolCalls) > 0
             THEN /\ status' = "executing_tool"
                  /\ runs' = [runs EXCEPT ![r] =
                       [Returned(@) EXCEPT !.pc = "tool_loop",
                                 !.responseContent = responseContent,
                                 !.toolCalls = toolCalls,
                                 !.callIdx = 1,
                                 !.notified = Append(@, "executing_tool"),
                                 !.functionResponsesParts = <<>>,
                                 !.toolResultsForUI = <<>>]]
             ELSE /\ UNCHANGED status
                  /\ runs' = [runs EXCEPT ![r] =
                       [Returned(@) EXCEPT !.pc = "loop",
                                 !.responseContent = responseContent,
                                 !.turnComplete = TRUE,
                                 !.newMessages =
                                    Append(@, Msg("model", FinalAnswerText(parts),
                                                  <<>>, TRUE))]]
  /\ UNCHANGED <<nruns, cur, messages, abortControllerRef, currentSessionId,
                 budget>>

(* the for-of over toolCalls: the abort check before a call, the registry   *)
(* lookup and the start of the tool                                         *)
ToolLoop(r) ==
  /\ cur = r
  /\ UNCHANGED retry
  /\ runs[r].pc = "tool_loop"
  /\ IF runs[r].callIdx > Len(runs[r].toolCalls)
     THEN /\ runs' = [runs EXCEPT ![r] = [@ EXCEPT !.pc = "after_tools"]]
          /\ cur' = r
     ELSE IF AbortRequested(runs[r])
     THEN /\ runs' = [runs EXCEPT ![r] =
                       [@ EXCEPT !.pc = "catch", !.error = AbortError,
                                 !.abortedAt = "tool_loop"]]
          /\ cur' = r
     ELSE IF runs[r].toolCalls[runs[r].callIdx].name \in toolsImplementation
     THEN /\ runs' = [runs EXCEPT ![r] = [@ EXCEPT !.pc = "await_tool"]]
          /\ cur' = 0
     ELSE /\ runs' = [runs EXCEPT ![r] = [@ EXCEPT !.callIdx = @ + 1]]
          /\ cur' = r
  /\ UNCHANGED <<history, nruns, status, messages, abortControllerRef,
                 currentSessionId, budget>>

(* getStockMarketData settles: it rejects when symbol is undefined          *)
(* (symbol.toUpperCase()), else it resolves with the data of the symbol    *)
ToolReturn(r) ==
  /\ cur = 0
  /\ UNCHANGED retry
  /\ runs[r].pc = "await_tool"
  /\ LET fc == runs[r].toolCalls[runs[r].callIdx] IN
     IF fc.symbol = NoSymbol
     THEN runs' = [runs EXCEPT ![r] =
                    [@ EXCEPT !.pc = "catch", !.error = ToolTypeError]]
     ELSE runs' = [runs EXCEPT ![r] =
                    [@ EXCEPT !.pc = "tool_loop",
                              !.callIdx = @ + 1,
                              !.toolResultsForUI =
                                 Append(@, toUpperCase(fc.symbol)),
                              !.functionResponsesParts =
                                 Append(@, ResponsePart(fc.name, fc.id,
                                                        toUpperCase(fc.symbol)))]]
  /\ cur' = r
  /\ UNCHANGED <<history, nruns, status, messages, abortControllerRef,
                 currentSessionId, budget>>

(* after the for-of: the write of the last turn, the tool-result turn and   *)
(* the tool message                                                         *)
AfterTools(r) ==
  /\ cur = r
  /\ UNCHANGED retry
  /\ runs[r].pc = "after_tools"
  /\ history' = Append(SetLast(history, runs[r].responseContent),
                       Turn("", runs[r].functionResponsesParts))
  /\ runs' = [runs EXCEPT ![r] =
        [@ EXCEPT !.pc = "loop",
                  !.newMessages =
                     IF Len(runs[r].toolResultsForUI) > 0
                     THEN Append(@, Msg("tool",
                                        ToolSummary(runs[r].toolResultsForUI),
                                        runs[r].toolResultsForUI, FALSE))
                     ELSE @]]
  /\ UNCHANGED <<nruns, cur, status, messages, abortControllerRef,
                 currentSessionId, budget>>

(* the catch of runConversation *)
Catch(r) ==
  /\ cur = r
  /\ UNCHANGED retry
  /\ runs[r].pc = "catch"
  /\ runs' = [runs EXCEPT ![r] =
        IF IsAbortError(runs[r].error)
        THEN [Returned(@) EXCEPT !.pc = "app_catch"]
        ELSE [Returned(@) EXCEPT !.pc = "loop",
                       !.turnComplete = TurnCompleteAfterError,
                       !.caught = Append(@, runs[r].error),
                       !.failed = TRUE,
                       !.error = NullError,
                       !.newMessages =
                          Append(@, Msg("model", ErrorMessage(runs[r].error),
                                        <<>>, TRUE))]]
  /\ UNCHANGED <<history, nruns, cur, status, messages, abortControllerRef,
                 currentSessionId, budget>>

\* a finished activation: its locals and logs are dead, the controller is
\* unreachable
Retired(outcome) == [NewRun EXCEPT !.pc = "done", !.outcome = outcome]

(* return newMessages, and handleSendMessage after the await *)
Return(r) ==
  /\ cur = r
  /\ UNCHANGED retry
  /\ runs[r].pc = "return"
  /\ messages' = messages \o runs[r].newMessages
  /\ status' = IF runs[r].newMessages # <<>>
                  /\ Last(runs[r].newMessages).shouldAnimate
               THEN "typing" ELSE "idle"
  /\ abortControllerRef' = 0
  /\ runs' = [runs EXCEPT ![r] = Retired("returned")]
  /\ cur' = 0
  /\ UNCHANGED <<history, nruns, currentSessionId, budget>>

(* runConversation threw: the catch and the finally of handleSendMessage *)
AppCatch(r) ==
  /\ cur = r
  /\ UNCHANGED retry
  /\ runs[r].pc = "app_catch"
  /\ messages' = IF runs[r].error.name = "AbortError"
                 THEN Append(messages, Msg("model", MsgStopped, <<>>, FALSE))
                 ELSE messages
  /\ status' = "idle"
  /\ abortControllerRef' = 0
  /\ runs' = [runs EXCEPT ![r] = Retired("threw")]
  /\ cur' = 0
  /\ UNCHANGED <<history, nruns, currentSessionId, budget>>


\* controller.abort() on the controller abortControllerRef holds
AbortCurrent(rs) ==
  [rs EXCEPT ![abortControllerRef] = [@ EXCEPT !.aborted = TRUE]]

(* handleStop: while typing, the last message is cut to the k tokens that   *)
(* are displayed; otherwise the controller in abortControllerRef is aborted *)
HandleStop ==
  /\ cur = 0
  /\ UNCHANGED retry
  /\ IF status = "typing"
     THEN /\ messages # <<>>
          /\ \E k \in 0..Len(Last(messages).content) :
               /\ Last(messages).shouldAnimate \/ k = Len(Last(messages).content)
               /\ messages' = [messages EXCEPT ![Len(messages)] =
                     [@ EXCEPT !.content = SubSeq(@, 1, k) \o StopMarker,
                               !.shouldAnimate = FALSE]]
          /\ status' = "idle"
          /\ UNCHANGED <<runs, abortControllerRef>>
     ELSE /\ abortControllerRef # 0
          /\ runs' = AbortCurrent(runs)
          /\ abortControllerRef' = 0
          /\ status' = "idle"
          /\ UNCHANGED messages
  /\ UNCHANGED <<history, nruns, cur, currentSessionId, budget>>

(* the typewriter of the last message reaches the end of its text and       *)
(* ChatMessage calls handleAnimationComplete                                *)
HandleAnimationComplete ==
  /\ cur = 0
  /\ UNCHANGED retry
  /\ status = "typing"
  /\ messages # <<>>
  /\ Last(messages).shouldAnimate
  /\ status' = "idle"
  /\ UNCHANGED <<history, runs, nruns, cur, messages, abortControllerRef,
                 currentSessionId, budget>>

\* const newId = Date.now().toString(): later actions get larger ids
NewSessionId == MaxActions + 1 - budget.actions

(* startNewSession: abort the generation in flight, open a session with    *)
(* the welcome message and reset the agent                                  *)
StartNewSession ==
  /\ cur = 0
  /\ UNCHANGED retry
  /\ budget.actions > 0
  /\ budget' = [budget EXCEPT !.actions = @ - 1]
  /\ IF abortControllerRef # 0
     THEN /\ runs' = AbortCurrent(runs)
          /\ abortControllerRef' = 0
          /\ status' = "idle"
     ELSE UNCHANGED <<runs, abortControllerRef, status>>
  /\ currentSessionId' = NewSessionId
  /\ messages' = <<Msg("model", MsgWelcome, <<>>, FALSE)>>
  /\ history' = <<>>
  /\ UNCHANGED <<nruns, cur>>

(* loadSession: abort the generation in flight, show the messages of the   *)
(* session without animation and seed the agent with them                   *)
LoadSession(session) ==
  /\ cur = 0
  /\ UNCHANGED retry
  /\ budget.actions > 0
  /\ budget' = [budget EXCEPT !.actions = @ - 1]
  /\ IF abortControllerRef # 0
     THEN /\ runs' = AbortCurrent(runs)
          /\ abortControllerRef' = 0
          /\ status' = "idle"
     ELSE UNCHANGED <<runs, abortControllerRef, status>>
  /\ currentSessionId' = session.id
  /\ messages' = WithoutAnimation(session.messages)
  /\ history' = setHistory(WithoutAnimation(session.messages))
  /\ UNCHANGED <<nruns, cur>>

(* deleteSession of the current session: load the first session that is    *)
(* left, or start a new one when none is left                               *)
DeleteSession ==
  \/ \E session \in StoredSessions :
       session.id # currentSessionId /\ LoadSession(session)
  \/ StartNewSession

-----------------------------------------------------------------------------
Next ==
  \/ HandleSendMessage
  \/ HandleStop
  \/ HandleAnimationComplete
  \/ StartNewSession
  \/ \E session \in StoredSessions : LoadSession(session)
  \/ DeleteSession
  \/ \E r \in Runs :
       \/ LoopHead(r)
       \/ TryModel(r)
       \/ \E reply \in ModelReplies : ModelResolve(r, reply)
       \/ \E e \in TransportErrors : ModelReject(r, e)
       \/ DelayDone(r)
       \/ AfterModel(r)
       \/ ToolLoop(r)
       \/ ToolReturn(r)
       \/ AfterTools(r)
       \/ Catch(r)
       \/ Return(r)
       \/ AppCatch(r)

Spec == Init /\ [][Next]_vars

\* the steps of the invocation r of handleSendMessage: its own segments, and
\* the settling of the promise or timer it waits for
RunStep(r) ==
  \/ LoopHead(r)
  \/ TryModel(r)
  \/ \E reply \in ModelReplies : ModelResolve(r, reply)
  \/ \E e \in TransportErrors : ModelReject(r, e)
  \/ DelayDone(r)
  \/ AfterModel(r)
  \/ ToolLoop(r)
  \/ ToolReturn(r)
  \/ AfterTools(r)
  \/ Catch(r)
  \/ Return(r)
  \/ AppCatch(r)

\* Every invocation goes on when it can (its segments run to completion,
\* every request to the model, every tool call and every timer settles), and
\* the typewriter of an animated last message reaches the end of the text.
\* The user owes nothing.
Fairness ==
  /\ \A r \in Runs : WF_vars(RunStep(r))
  /\ WF_vars(HandleAnimationComplete)

SpecLive == Spec /\ Fairness

-----------------------------------------------------------------------------
(* The earlier variant of the agent: generateContentWithRetry, which       *)
(* retries the request on the one model of the agent.  A behaviour of      *)
(* SpecRetry is one call of it (attempt = 1) against a transport that      *)
(* resolves or rejects each request.                                       *)

\* private modelName = 'gemini-3-flash-preview'
modelName == "gemini-3-flash-preview"

MAX_RETRIES == 3
BASE_DELAY == 2000

\* the errors of TransportErrors, and the 429 given as code or in the text
RetryTransportErrors ==
  TransportErrors \cup { Err("ApiError", 0, 429, {}),
                         Err("ApiError", 0, 0, {"429"}) }

\* const isRateLimit = ..., in the catch of generateContentWithRetry
RetryIsRateLimit(error) ==
  \/ error.status = 429
  \/ error.code = 429
  \/ "429" \in error.message
  \/ "quota" \in error.message

\* faulty variant of delayTime: the delay grows by the base interval
delayTimeLinear(attempt) == BASE_DELAY * attempt

\* const delayTime = BASE_DELAY * Math.pow(2, attempt - 1)
delayTime(attempt) == BASE_DELAY * 2 ^ (attempt - 1)

InitRetry ==
  /\ history = <<>>
  /\ runs = [r \in Runs |-> NewRun]
  /\ nruns = 0
  /\ cur = 0
  /\ status = "idle"
  /\ messages = <<Msg("model", MsgWelcome, <<>>, FALSE)>>
  /\ abortControllerRef = 0
  /\ currentSessionId = 0
  /\ budget = Budget(0, 0, 0)
  /\ retry = RetryCall("request", 1)

(* the try block: this.ai.models.generateContent({ model: this.modelName }) *)
RetryRequest ==
  /\ retry.pc = "request"
  /\ retry' = [retry EXCEPT !.pc = "await_model",
                            !.requests = Append(@, modelName)]
  /\ UNCHANGED appVars

(* the request resolves: the response is returned through every invocation *)
RetryResolve ==
  /\ retry.pc = "await_model"
  /\ retry' = [retry EXCEPT !.pc = "returned"]
  /\ UNCHANGED appVars

(* the request rejects: the catch waits and calls itself, or throws *)
RetryReject(e) ==
  /\ retry.pc = "await_model"
  /\ retry' =
       IF RetryIsRateLimit(e) /\ retry.attempt <= MAX_RETRIES
       THEN [retry EXCEPT !.pc = "await_delay",
                          !.errors = Append(@, e),
                          !.delays = Append(@, delayTime(retry.attempt))]
       ELSE [retry EXCEPT !.pc = "threw",
                          !.errors = Append(@, e),
                          !.error = e]
  /\ UNCHANGED appVars

(* the delay ends: generateContentWithRetry(..., attempt + 1) *)
RetryDelayDone ==
  /\ retry.pc = "await_delay"
  /\ retry' = [retry EXCEPT !.pc = "request", !.attempt = @ + 1]
  /\ UNCHANGED appVars

NextRetry ==
  \/ RetryRequest
  \/ RetryResolve
  \/ \E e \in RetryTransportErrors : RetryReject(e)
  \/ RetryDelayDone

SpecRetry == InitRetry /\ [][NextRetry]_vars

-----------------------------------------------------------------------------
(* Properties. They read the parts of replies, turns and messages          *)
(* directly, not through the operators the actions use.                     *)

RequestsTool(reply) ==
  /\ reply.hasContent
  /\ \E i \in 1..Len(reply.parts) : reply.parts[i].kind = "functionCall"

IsFinal(reply) == reply.hasContent /\ ~RequestsTool(reply)

RoleIndexes(ms, role) == { i \in 1..Len(ms) : ms[i].role = role }

RECURSIVE ConcatText(_)
ConcatText(parts) ==
  IF parts = <<>> THEN <<>>
  ELSE (IF Head(parts).kind = "text" THEN Head(parts).text ELSE <<>>)
       \o ConcatText(Tail(parts))

CallIndexes(parts) == { i \in 1..Len(parts) : parts[i].kind = "functionCall" }
CallIds(parts) == { parts[i].id : i \in CallIndexes(parts) }
ResponseIndexes(parts) ==
  { i \in 1..Len(parts) : parts[i].kind = "functionResponse" }
ResponseIds(parts) == { parts[i].id : i \in ResponseIndexes(parts) }

IsToolRequestTurn(t) == t.role = "model" /\ CallIndexes(t.parts) # {}
IsToolResultTurn(t) ==
  t.role = "" /\ \A i \in 1..Len(t.parts) : t.parts[i].kind = "functionResponse"

\* capacity exhaustion as the specification defines it: 429 or 503 as
\* status or as code, or a quota or overload marker in the message
IsCapacityExhaustion(e) ==
  \/ e.status \in {429, 503}
  \/ e.code \in {429, 503}
  \/ e.message \cap {"429", "503", "quota"} # {}

ErrorTexts == {MsgGeneric, MsgAllExhausted, MsgQuota, MsgModelUnavailable}

StoppedMessage == Msg("model", MsgStopped, <<>>, FALSE)

\* C1: a run that is not cancelled and meets no failure, and in which every
\* reply of the model requests a tool, returns after exactly MAX_ITERATIONS
\* calls of the invoker; it returns no model message, only tool messages,
\* and at no point holds more tool messages than iterations it has begun.
C1_Termination ==
  \A r \in Runs :
    /\ Cardinality(RoleIndexes(runs[r].newMessages, "tool")) <= runs[r].iteration
    /\ ( /\ runs[r].pc = "return"
         /\ ~runs[r].failed
         /\ \A i \in 1..Len(runs[r].seen) : RequestsTool(runs[r].seen[i]) )
       => /\ runs[r].iteration = MAX_ITERATIONS
          /\ Len(runs[r].seen) = MAX_ITERATIONS
          /\ Len(runs[r].newMessages) <= MAX_ITERATIONS
          /\ RoleIndexes(runs[r].newMessages, "model") = {}

\* a run returns at the cap after MAX_ITERATIONS replies that requested tools
C1_Witness ==
  \E r \in Runs :
    /\ runs[r].pc = "return"
    /\ ~runs[r].failed
    /\ Len(runs[r].seen) = MAX_ITERATIONS
    /\ \A i \in 1..Len(runs[r].seen) : RequestsTool(runs[r].seen[i])
    /\ Len(runs[r].newMessages) >= 1

\* C2: a reply with content and without tool-call part that the loop
\* processes (no cancellation was requested while it was awaited) is the
\* last reply of its run: no model call follows it, and the run returns
\* exactly one model message, the last one, whose text is the concatenation
\* of the reply's text parts in order, or the fallback text when that is
\* empty.
C2_SingleFinalAnswer ==
  \A r \in Runs :
    /\ \A i \in 1..Len(runs[r].seen) :
         IsFinal(runs[r].seen[i]) =>
           /\ i = Len(runs[r].seen)
           /\ runs[r].pc \in {"after_model", "loop", "return", "catch",
                              "app_catch"}
    /\ ( /\ runs[r].pc \in {"loop", "return"}
         /\ runs[r].seen # <<>>
         /\ IsFinal(Last(runs[r].seen)) )
       => LET ms == runs[r].newMessages
              text == ConcatText(Last(runs[r].seen).parts)
          IN /\ RoleIndexes(ms, "model") = {Len(ms)}
             /\ Last(ms).content = IF text = <<>> THEN FallbackText ELSE text
             /\ runs[r].turnComplete

\* a run returns the concatenation of the text parts around an empty one
C2_Witness ==
  \E r \in Runs :
    /\ runs[r].pc = "return"
    /\ runs[r].seen # <<>>
    /\ IsFinal(Last(runs[r].seen))
    /\ Last(runs[r].newMessages).content = <<"a", "b">>

\* C3: after an iteration that ran tool calls and completed without error
\* or cancellation, the last two turns of the history are the model turn
\* with its N tool-call parts and a tool-result turn with exactly N
\* tool-response parts, each with a call id of the model turn.
C3_HistoryPairing ==
  \A r \in Runs :
    ( /\ cur = r
      /\ runs[r].pc = "loop"
      /\ runs[r].toolCalls # <<>>
      /\ ~runs[r].turnComplete )
    => /\ Len(history) >= 2
       /\ LET request == history[Len(history) - 1]
              result == history[Len(history)]
          IN /\ IsToolRequestTurn(request)
             /\ IsToolResultTurn(result)
             /\ Len(result.parts) = Cardinality(CallIndexes(request.parts))
             /\ ResponseIds(result.parts) \subseteq CallIds(request.parts)

\* C4: in every history, a model turn with tool-call parts that is not the
\* last turn is followed by exactly one tool-result turn, which holds a
\* response for every requested call id.
C4_HistoryAlternation ==
  \A i \in 1..Len(history) :
    (IsToolRequestTurn(history[i]) /\ i < Len(history))
    => /\ IsToolResultTurn(history[i + 1])
       /\ CallIds(history[i].parts) \subseteq ResponseIds(history[i + 1].parts)
       /\ (i + 2 <= Len(history) => ~IsToolResultTurn(history[i + 2]))

\* C5: only the abort leaves runConversation as an exception. An error of
\* the invoker, of the empty-response check or of a tool is handled once:
\* the run makes no further model or tool call, and what it returns ends
\* with its only model message, an error text.
C5_FailuresEndTheRun ==
  \A r \in Runs :
    /\ runs[r].pc = "app_catch"
         => (runs[r].error = AbortError /\ runs[r].aborted)
    /\ runs[r].failed
         => LET ms == runs[r].newMessages
            IN /\ runs[r].pc \in {"loop", "return"}
               /\ Len(runs[r].caught) = 1
               /\ runs[r].caught[1].name # "AbortError"
               /\ RoleIndexes(ms, "model") = {Len(ms)}
               /\ Last(ms).content \in ErrorTexts

\* a run returns after a tool execution failed in its second iteration
C5_Witness ==
  \E r \in Runs :
    /\ runs[r].pc = "return"
    /\ runs[r].failed
    /\ runs[r].caught = <<ToolTypeError>>
    /\ Len(runs[r].seen) = 2

\* C6: when the abort is already requested as an iteration begins, the run
\* makes no model call in it and raises AbortError with nothing returned;
\* handleSendMessage then shows the stopped message instead of what the run
\* had collected, and sets the status idle.
C6_CancelledBeforeModelCall ==
  [][\A r \in Runs :
       /\ ( /\ cur = r
            /\ runs[r].pc = "loop"
            /\ runs[r].aborted
            /\ ~runs[r].turnComplete
            /\ runs[r].iteration < MAX_ITERATIONS )
          => /\ runs'[r].pc = "app_catch"
             /\ runs'[r].error = AbortError
             /\ runs'[r].iteration = runs[r].iteration
             /\ runs'[r].newMessages = runs[r].newMessages
             /\ budget' = budget
             /\ messages' = messages
       /\ (runs[r].pc = "app_catch" /\ runs'[r].pc # "app_catch")
          => /\ messages' = Append(messages, StoppedMessage)
             /\ status' = "idle"
             /\ runs'[r].outcome = "threw"
    ]_vars

\* a run is cancelled at the top of an iteration, holding a tool message it
\* will not return
C6_Witness ==
  \E r \in Runs :
    /\ runs[r].pc = "app_catch"
    /\ runs[r].abortedAt = "loop"
    /\ runs[r].iteration >= 1
    /\ runs[r].newMessages # <<>>

\* C7: a run whose abort is honoured at a checkpoint produces no error
\* message: the catch of the iteration passes the AbortError on unchanged
\* and adds no message, the run has no model message when it unwinds, and
\* the one message shown for it is the stopped message of handleSendMessage.
C7_CancellationIsNotAnError ==
  /\ [](\A r \in Runs :
          runs[r].pc = "app_catch"
            => /\ ~runs[r].failed
               /\ runs[r].error = AbortError
               /\ RoleIndexes(runs[r].newMessages, "model") = {})
  /\ [][\A r \in Runs :
          /\ (runs[r].pc = "catch" /\ runs[r].error = AbortError)
             => /\ runs'[r].pc = "app_catch"
                /\ runs'[r].error = AbortError
                /\ runs'[r].newMessages = runs[r].newMessages
                /\ runs'[r].caught = runs[r].caught
          /\ (runs[r].pc = "app_catch" /\ runs'[r].pc = "done")
             => /\ Len(messages') = Len(messages) + 1
                /\ Last(messages') = StoppedMessage
                /\ \A i \in 1..Len(messages) : messages'[i] = messages[i]
       ]_vars

\* the abort honoured before a tool call has passed the catch of the
\* iteration
C7_Witness ==
  \E r \in Runs :
    /\ runs[r].pc = "app_catch"
    /\ runs[r].abortedAt = "tool_loop"

\* C8: when a run begins its first model call after an earlier run ended by
\* cancellation, and no other run is in progress, the history holds no
\* model turn with tool-call parts that is not followed by a tool-result
\* turn.
C8_NoTornHistoryAfterCancellation ==
  \A r \in Runs :
    ( /\ runs[r].pc = "await_model"
      /\ runs[r].iteration = 1
      /\ \E q \in Runs : runs[q].outcome = "threw"
      /\ \A q \in Runs \ {r} : runs[q].pc \in {"unborn", "done"} )
    => \A i \in 1..Len(history) :
         IsToolRequestTurn(history[i])
           => (i < Len(history) /\ IsToolResultTurn(history[i + 1]))

\* C9: when the first candidate fails with a capacity exhaustion, the
\* invoker goes on to the second candidate and to no other; when it
\* returns, it has made exactly one attempt on each, and it returns the
\* reply of the second with modelUsed the second.
C9_FallbackOrdering ==
  \A r \in Runs :
    LET at == runs[r].attempts IN
    ( /\ at # <<>>
      /\ at[1].model = models[1]
      /\ ~at[1].ok
      /\ IsCapacityExhaustion(at[1].error) )
    => /\ runs[r].pc \in {"await_delay", "try_model", "await_model",
                          "after_model", "catch"}
       /\ runs[r].pc \in {"await_delay"} => Len(at) = 1
       /\ runs[r].pc \in {"try_model", "await_model"}
            => (Len(at) = 1 /\ models[runs[r].modelIdx] = models[2])
       /\ runs[r].pc \in {"after_model", "catch"} => Len(at) = 2
       /\ runs[r].pc = "after_model"
            => /\ at[2].model = models[2]
               /\ at[2].ok
               /\ runs[r].modelUsed = models[2]
               /\ runs[r].result = at[2].reply


\* C10: when the invoker throws and every attempt it made failed with a
\* capacity exhaustion, it made exactly one attempt on each candidate, in
\* the order of the list, and the error it throws is the error of the
\* second attempt.
C10_FallbackExhaustion ==
  \A r \in Runs :
    LET at == runs[r].attempts IN
    ( /\ runs[r].pc = "catch"
      /\ at # <<>>
      /\ \A i \in 1..Len(at) : ~at[i].ok /\ IsCapacityExhaustion(at[i].error) )
    => /\ Len(at) = Len(models)
       /\ \A i \in 1..Len(at) : at[i].model = models[i]
       /\ runs[r].error = at[Len(at)].error


RECURSIVE SeededTurns(_)
\* one turn per message that is not a tool message, in the order of the list
SeededTurns(ms) ==
  IF ms = <<>> THEN <<>>
  ELSE (IF Head(ms).role = "tool" THEN <<>>
        ELSE << [role |-> IF Head(ms).role = "user" THEN "user" ELSE "model",
                 parts |-> <<TextPart(Head(ms).content)>>] >>)
       \o SeededTurns(Tail(ms))

\* C11: loading a session seeds the history with exactly one turn per
\* message that is not a tool message, in order, user messages as user
\* turns and the others as model turns with the same text; the next run
\* adds its user turn and nothing else before its model call.
C11_SeedingRoundTrip ==
  [][/\ (nruns' = nruns /\ currentSessionId' < 0
          /\ budget'.actions < budget.actions)
        => history' = SeededTurns(messages')
     /\ nruns' = nruns + 1
        => history' = Append(history,
                             [role |-> "user",
                              parts |-> <<TextPart(runs'[nruns'].userText)>>])
     /\ \A r \in Runs :
          (runs[r].pc = "try_model" /\ runs'[r].pc = "await_model")
            => history' = history
    ]_vars

\* the first model call after the session [user "AAPL?", model "Apple is at
\* $150"] was loaded sees these two turns and the new user turn
C11_Witness ==
  \E r \in Runs :
    /\ runs[r].pc = "await_model"
    /\ runs[r].iteration = 1
    /\ currentSessionId = -1
    /\ Len(history) = 3
    /\ history[1] = [role |-> "user", parts |-> <<TextPart(<<"AAPL?">>)>>]
    /\ history[2] = [role |-> "model",
                     parts |-> <<TextPart(<<"Apple is at $150">>)>>]
    /\ history[3] = [role |-> "user", parts |-> <<TextPart(runs[r].userText)>>]

\* a reply whose content is exactly one call of a registered tool with a
\* symbol
IsOneRegisteredCall(reply) ==
  /\ reply.hasContent
  /\ Len(reply.parts) = 1
  /\ reply.parts[1].kind = "functionCall"
  /\ reply.parts[1].name \in toolsImplementation
  /\ reply.parts[1].symbol # NoSymbol

\* C12: a run whose first reply requests one registered tool and whose
\* second reply is final text returns exactly two messages: a tool message
\* whose text names the fetched symbol and whose payload is the one tool
\* result, then a model message with the final text.
C12_ToolThenAnswer ==
  \A r \in Runs :
    ( /\ runs[r].pc = "return"
      /\ Len(runs[r].seen) = 2
      /\ IsOneRegisteredCall(runs[r].seen[1])
      /\ IsFinal(runs[r].seen[2]) )
    => LET ms == runs[r].newMessages
           fetched == toUpperCase(runs[r].seen[1].parts[1].symbol)
           text == ConcatText(runs[r].seen[2].parts)
       IN /\ Len(ms) = 2
          /\ ms[1].role = "tool"
          /\ ms[1].stockData = <<fetched>>
          /\ \E i \in 1..Len(ms[1].content) : ms[1].content[i] = fetched
          /\ ~ms[1].shouldAnimate
          /\ ms[2].role = "model"
          /\ ms[2].content = IF text = <<>> THEN FallbackText ELSE text
          /\ ms[2].stockData = <<>>

\* the run returns the data of TSLA and then the text of the second reply
C12_Witness ==
  \E r \in Runs :
    /\ runs[r].pc = "return"
    /\ Len(runs[r].seen) = 2
    /\ IsOneRegisteredCall(runs[r].seen[1])
    /\ Len(runs[r].newMessages) = 2
    /\ runs[r].newMessages[1].stockData = <<"TSLA">>
    /\ runs[r].newMessages[2].content = <<"a", "b">>

\* C13: once an iteration has set turnComplete, no checkpoint is passed
\* any more: the run goes from the loop test to the return with what it
\* collected, handleSendMessage appends exactly that to the messages, and a
\* stop pressed afterwards (while the answer is typed out) neither removes
\* the message nor touches a run.
C13_FinalAnswerIsDelivered ==
  /\ [](\A r \in Runs : runs[r].turnComplete => runs[r].pc \in {"loop", "return"})
  /\ [][/\ \A r \in Runs :
             /\ (runs[r].pc = "loop" /\ runs[r].turnComplete)
                => /\ runs'[r].pc = "return"
                   /\ runs'[r].newMessages = runs[r].newMessages
             /\ runs[r].pc = "return"
                => /\ runs'[r].outcome = "returned"
                   /\ messages' = messages \o runs[r].newMessages
        /\ ( /\ cur = 0 /\ cur' = 0 /\ budget' = budget
             /\ status = "typing" /\ status' = "idle" )
           => /\ runs' = runs
              /\ Len(messages') = Len(messages)
              /\ \A i \in 1..Len(messages) : messages'[i].role = messages[i].role
       ]_vars

\* the stop was pressed while the delivered answer "a" "b" was typed out
C13_Witness ==
  /\ status = "idle"
  /\ Len(messages) >= 2
  /\ Last(messages).role = "model"
  /\ \E k \in 0..2 :
       Last(messages).content = SubSeq(<<"a", "b">>, 1, k) \o StopMarker

\* the runs of runConversation that have started and not yet ended
InFlight == { r \in Runs : runs[r].pc \notin {"unborn", "done"} }

\* C14: at most one run of runConversation is in flight on the agent at
\* any time.
C14_RunsAreSerialized == Cardinality(InFlight) <= 1

IsPrefix(a, b) == Len(a) <= Len(b) /\ SubSeq(b, 1, Len(a)) = a

\* a step of startNewSession, loadSession or deleteSession: the agent is
\* reset or seeded
IsSessionStep == nruns' = nruns /\ budget'.actions # budget.actions

\* C15: apart from reset and setHistory, every step leaves the history it
\* found as a prefix of the history it leaves.
C15_HistoryIsAppendOnly ==
  [][~IsSessionStep => IsPrefix(history, history')]_vars

\* C16: a capacity exhaustion on the first candidate, given as status, as
\* code or as a marker in the message, never makes the invoker fail: the
\* next candidate follows.
C16_CapacityClassification ==
  \A r \in Runs :
    LET at == runs[r].attempts IN
    ( /\ at # <<>>
      /\ at[1].model # models[Len(models)]
      /\ ~at[1].ok
      /\ IsCapacityExhaustion(at[1].error) )
    => ~(runs[r].pc = "catch" /\ Len(at) = 1)

\* a failure the invoker does not classify as capacity exhaustion
\* (among them the 503 given as code only)
IsNotClassifiedAsCapacity(e) ==
  /\ e.status \notin {429, 503}
  /\ e.code # 429
  /\ e.message \cap {"429", "503", "quota"} = {}

\* C17: after an attempt that failed with an error not classified as
\* capacity exhaustion, or that failed on the last candidate, the invoker
\* has thrown that error: it is not waiting for the cool-down and requests
\* no other candidate.
C17_FailurePropagatesAtOnce ==
  \A r \in Runs :
    LET at == runs[r].attempts IN
    ( /\ at # <<>>
      /\ ~Last(at).ok
      /\ \/ IsNotClassifiedAsCapacity(Last(at).error)
         \/ Last(at).model = models[Len(models)] )
    => /\ runs[r].pc = "catch"
       /\ runs[r].error = Last(at).error

\* the invoker has thrown the 404 of the first candidate after one attempt
C17_Witness ==
  \E r \in Runs :
    /\ runs[r].pc = "catch"
    /\ Len(runs[r].attempts) = 1
    /\ runs[r].attempts[1].model = models[1]
    /\ runs[r].attempts[1].error.status = 404
    /\ runs[r].attempts[1].error.message = {}
    /\ runs[r].error = runs[r].attempts[1].error

\* C18: within one call of the invoker the attempts follow the list, one
\* per candidate at most, none after a success; the cool-down begins at a
\* failed attempt and ends with the step to the next candidate, and only
\* through it is a candidate after the first requested.
C18_AttemptsInListOrder ==
  /\ [](\A r \in Runs :
          LET at == runs[r].attempts IN
          /\ Len(at) <= Len(models)
          /\ \A i \in 1..Len(at) :
               /\ at[i].model = models[i]
               /\ i < Len(at) => ~at[i].ok
          /\ runs[r].pc \in {"await_model", "await_delay"}
               => \A i \in 1..Len(at) : ~at[i].ok)
  /\ [][\A r \in Runs :
          /\ (runs[r].pc # "await_delay" /\ runs'[r].pc = "await_delay")
             => /\ runs[r].pc = "await_model"
                /\ Len(runs'[r].attempts) = Len(runs[r].attempts) + 1
                /\ ~Last(runs'[r].attempts).ok
          /\ (runs[r].pc = "await_delay" /\ runs'[r].pc # "await_delay")
             => /\ runs'[r].pc = "try_model"
                /\ runs'[r].modelIdx = Len(runs[r].attempts) + 1
                /\ runs'[r].attempts = runs[r].attempts
          /\ ( /\ runs[r].pc # "try_model" /\ runs'[r].pc = "try_model"
               /\ runs'[r].modelIdx > 1 )
             => runs[r].pc = "await_delay"
       ]_vars

\* the second candidate answered after the first failed
C18_Witness ==
  \E r \in Runs :
    /\ runs[r].pc = "after_model"
    /\ Len(runs[r].attempts) = 2
    /\ ~runs[r].attempts[1].ok
    /\ runs[r].attempts[2].ok
    /\ runs[r].attempts[2].model = models[2]

\* every candidate of the list was attempted and failed with a
\* capacity-exhaustion signal
AllModelsExhausted(run) ==
  /\ Len(run.attempts) = Len(models)
  /\ \A i \in 1..Len(run.attempts) :
       /\ ~run.attempts[i].ok
       /\ IsCapacityExhaustion(run.attempts[i].error)

\* the catch of runConversation handled the error of run r in this step
CatchStep(r) == runs[r].pc = "catch" /\ runs'[r].pc # "catch"

\* C19: when every model of the list failed with a capacity-exhaustion
\* signal (429, 503 or a quota marker), the message the run reports is the
\* 'all configured models exhausted' message.
C19_AllModelsExhaustedMessage ==
  [][\A r \in Runs :
       (CatchStep(r) /\ AllModelsExhausted(runs[r]))
       => runs'[r].newMessages =
            Append(runs[r].newMessages,
                   Msg("model", MsgAllExhausted, <<>>, TRUE))
    ]_vars

\* C20: a model call that failed with status 404 is the only attempt of its
\* request, no cool-down follows it, and the run reports the 'configured
\* model unavailable' message, whatever markers the error message holds.
C20_NotFoundIsNotRetried ==
  /\ [](\A r \in Runs :
          \A i \in 1..Len(runs[r].attempts) :
            ( /\ ~runs[r].attempts[i].ok
              /\ runs[r].attempts[i].error.status = 404 )
            => /\ Len(runs[r].attempts) = i
               /\ runs[r].pc = "catch")
  /\ [][\A r \in Runs :
          (CatchStep(r) /\ runs[r].error.status = 404)
          => runs'[r].newMessages =
               Append(runs[r].newMessages,
                      Msg("model", MsgModelUnavailable, <<>>, TRUE))
       ]_vars

\* C21: a response without content, received by a run that is not
\* cancelled, is thrown as an error before any turn is appended; the catch
\* appends the generic processing-error message and ends the loop; the run
\* returns with that message as its only model message and the history as
\* it was when the response arrived.
C21_EmptyResponseIsFatal ==
  /\ [](\A r \in Runs :
          ( /\ runs[r].pc = "return"
            /\ runs[r].caught # <<>>
            /\ Last(runs[r].caught) = NoContentError )
          => /\ Last(runs[r].newMessages).content = MsgGeneric
             /\ Cardinality(RoleIndexes(runs[r].newMessages, "model")) = 1)
  /\ [][\A r \in Runs :
          /\ ( /\ runs[r].pc = "after_model"
               /\ ~runs[r].result.hasContent
               /\ ~runs[r].aborted )
             => /\ runs'[r].pc = "catch"
                /\ runs'[r].error = NoContentError
                /\ runs'[r].newMessages = runs[r].newMessages
                /\ history' = history
          /\ (runs[r].pc = "catch" /\ runs[r].error = NoContentError)
             => /\ runs'[r].pc = "loop"
                /\ runs'[r].turnComplete
                /\ runs'[r].newMessages =
                     Append(runs[r].newMessages,
                            Msg("model", MsgGeneric, <<>>, TRUE))
                /\ history' = history
          /\ ( /\ runs[r].pc = "loop"
               /\ runs[r].caught # <<>>
               /\ Last(runs[r].caught) = NoContentError )
             => /\ runs'[r].pc = "return"
                /\ runs'[r].newMessages = runs[r].newMessages
                /\ history' = history
       ]_vars

\* a run returns after a tool iteration and an empty response
C21_Witness ==
  \E r \in Runs :
    /\ runs[r].pc = "return"
    /\ runs[r].iteration = 2
    /\ runs[r].caught = <<NoContentError>>
    /\ ~Last(runs[r].seen).hasContent
    /\ Len(runs[r].newMessages) = 2
    /\ Last(runs[r].newMessages).content = MsgGeneric

\* C22: when a tool rejects, no further call of the iteration is started,
\* neither the history nor the returned messages get anything from the
\* iteration's calls, the catch appends one error message and ends the
\* loop, and the run returns: one model message, and a tool message only
\* for earlier iterations.
C22_ToolFailureAbortsTheIteration ==
  /\ [](\A r \in Runs :
          ( /\ runs[r].pc = "return"
            /\ runs[r].caught # <<>>
            /\ Last(runs[r].caught) = ToolTypeError )
          => /\ Last(runs[r].newMessages).content = MsgGeneric
             /\ Cardinality(RoleIndexes(runs[r].newMessages, "model")) = 1
             /\ Cardinality(RoleIndexes(runs[r].newMessages, "tool"))
                  <= runs[r].iteration - 1)
  /\ [][\A r \in Runs :
          /\ (runs[r].pc = "await_tool" /\ runs'[r].pc = "catch")
             => /\ runs'[r].error = ToolTypeError
                /\ runs'[r].newMessages = runs[r].newMessages
                /\ history' = history
          /\ (runs[r].pc = "catch" /\ runs[r].error = ToolTypeError)
             => /\ runs'[r].pc = "loop"
                /\ runs'[r].turnComplete
                /\ runs'[r].newMessages =
                     Append(runs[r].newMessages,
                            Msg("model", MsgGeneric, <<>>, TRUE))
                /\ history' = history
          /\ ( /\ runs[r].pc = "loop"
               /\ runs[r].caught # <<>>
               /\ Last(runs[r].caught) = ToolTypeError )
             => /\ runs'[r].pc = "return"
                /\ runs'[r].newMessages = runs[r].newMessages
                /\ history' = history
       ]_vars

\* the second of three calls failed after the first succeeded: the run
\* returns the error message alone
C22_Witness ==
  \E r \in Runs :
    /\ runs[r].pc = "return"
    /\ runs[r].iteration = 1
    /\ runs[r].caught = <<ToolTypeError>>
    /\ Len(Last(runs[r].seen).parts) = 3
    /\ Last(runs[r].seen).parts[2].symbol = NoSymbol
    /\ Len(runs[r].newMessages) = 1
    /\ Last(history).role = "model"

\* C23: when the invoker returns a response to a run whose cancellation was
\* requested meanwhile, the run throws the abort at that checkpoint with
\* the history and its messages untouched, the catch throws it on, and
\* handleSendMessage ends the run with the stopped notice alone: no turn,
\* no tool call and no message comes from the response.
C23_CancelledWhileModelCallInFlight ==
  [][\A r \in Runs :
       /\ (runs[r].pc = "after_model" /\ runs[r].aborted)
          => /\ runs'[r].pc = "catch"
             /\ runs'[r].error.name = "AbortError"
             /\ runs'[r].newMessages = runs[r].newMessages
             /\ history' = history
       /\ (runs[r].pc = "catch" /\ runs[r].error.name = "AbortError")
          => /\ runs'[r].pc = "app_catch"
             /\ runs'[r].error = runs[r].error
             /\ history' = history
             /\ messages' = messages
       /\ (runs[r].pc = "app_catch" /\ runs[r].error.name = "AbortError")
          => /\ runs'[r].outcome = "threw"
             /\ history' = history
             /\ messages' = Append(messages, Msg("model", MsgStopped, <<>>, FALSE))
    ]_vars

\* a response with tool calls arrived after the stop: the run is about to
\* end in handleSendMessage's catch
C23_Witness ==
  \E r \in Runs :
    /\ runs[r].pc = "app_catch"
    /\ runs[r].abortedAt = "after_model"
    /\ runs[r].seen # <<>>
    /\ RequestsTool(Last(runs[r].seen))
    /\ runs[r].newMessages = <<>>

IsRegisteredCall(p) ==
  p.kind = "functionCall" /\ p.name = "get_stock_market_data"

\* the ids of the parts of a list, in the order of the list
IdsInOrder(parts) == [i \in 1..Len(parts) |-> parts[i].id]

\* the run r took a step of its for loop over the tool calls
ToolCallStep(r) ==
  /\ runs[r].pc \in {"tool_loop", "await_tool"}
  /\ \/ runs'[r].pc # runs[r].pc
     \/ runs'[r].callIdx # runs[r].callIdx

\* C24: the steps of the loop over the calls of an iteration leave the
\* history alone; the step after the last call appends exactly one turn, a
\* tool-result turn whose responses answer the registered calls of the
\* model's reply in the order of the reply, and hands over to the loop
\* head; no model call starts from within the calls.
C24_OneToolResultTurn ==
  [][\A r \in Runs :
       /\ ToolCallStep(r) => history' = history
       /\ runs[r].pc = "after_tools"
          => /\ Len(history') = Len(history) + 1
             /\ IsToolResultTurn(Last(history'))
             /\ IdsInOrder(Last(history').parts) =
                  IdsInOrder(SelectSeq(Last(runs[r].seen).parts,
                                       IsRegisteredCall))
             /\ runs'[r].pc = "loop"
       /\ runs[r].pc \in {"tool_loop", "await_tool", "after_tools"}
          => runs'[r].pc \notin {"try_model", "await_model"}
    ]_vars

\* the two calls of a reply were answered by one turn, in their order, and
\* the loop goes on
C24_Witness ==
  \E r \in Runs :
    /\ runs[r].pc = "loop"
    /\ ~runs[r].turnComplete
    /\ runs[r].iteration = 1
    /\ history # <<>>
    /\ IsToolResultTurn(Last(history))
    /\ IdsInOrder(Last(history).parts) = <<"c1", "c2">>
    /\ Len(history) >= 2
    /\ history[Len(history) - 1].role = "model"

\* the next call of the loop over the calls names no registered tool
AtUnknownCall(run) ==
  /\ run.pc = "tool_loop"
  /\ run.callIdx <= Len(run.toolCalls)
  /\ run.toolCalls[run.callIdx].name # "get_stock_market_data"

\* C25: a call that names no registered tool is passed over (when no
\* cancellation is pending): no error, no change of the history, of the
\* response parts, of the results for the UI.  After the calls, a tool
\* message is appended if and only if the reply had a registered call, it
\* carries one result per registered call, the tool-result turn answers
\* registered calls only, and the loop goes on to the next model call.
C25_UnknownToolIsSkipped ==
  [][\A r \in Runs :
       /\ (AtUnknownCall(runs[r]) /\ ~runs[r].aborted)
          => /\ runs'[r].pc = "tool_loop"
             /\ runs'[r].callIdx = runs[r].callIdx + 1
             /\ runs'[r].error = NullError
             /\ runs'[r].functionResponsesParts = runs[r].functionResponsesParts
             /\ runs'[r].toolResultsForUI = runs[r].toolResultsForUI
             /\ runs'[r].newMessages = runs[r].newMessages
             /\ history' = history
       /\ runs[r].pc = "after_tools"
          => LET registered == SelectSeq(Last(runs[r].seen).parts,
                                         IsRegisteredCall)
             IN  /\ IF registered # <<>>
                    THEN /\ Len(runs'[r].newMessages) =
                              Len(runs[r].newMessages) + 1
                         /\ Last(runs'[r].newMessages).role = "tool"
                         /\ Len(Last(runs'[r].newMessages).stockData) =
                              Len(registered)
                    ELSE runs'[r].newMessages = runs[r].newMessages
                 /\ \A i \in 1..Len(Last(history').parts) :
                      Last(history').parts[i].name = "get_stock_market_data"
                 /\ runs'[r].pc = "loop"
                 /\ ~runs'[r].turnComplete
       /\ ( /\ runs[r].pc = "loop" /\ ~runs[r].turnComplete
            /\ runs[r].iteration < MAX_ITERATIONS /\ ~runs[r].aborted )
          => runs'[r].pc = "try_model"
    ]_vars

\* of an unknown call and a registered call, only the second was served
C25_Witness ==
  \E r \in Runs :
    /\ runs[r].pc = "loop"
    /\ runs[r].iteration = 1
    /\ ~runs[r].turnComplete
    /\ Len(Last(runs[r].seen).parts) = 2
    /\ Last(runs[r].seen).parts[1].name = "unknown_tool"
    /\ Last(runs[r].newMessages).role = "tool"
    /\ Len(Last(runs[r].newMessages).stockData) = 1
    /\ IdsInOrder(Last(history).parts) = <<"c2">>

\* the positions of the log of notifications at which an iteration began
IterationStarts(n) == { i \in 1..Len(n) : n[i] # "executing_tool" }

\* C26: the statuses a run has sent are 'thinking' first, then
\* 'analyzing_tool_data' at the start of each later iteration, and
\* 'executing_tool' at most once within an iteration; 'executing_tool' is
\* sent in the step that meets the tool calls of the response of a run not
\* cancelled meanwhile, which precedes the first call, and in no other step;
\* each entry into an iteration sends one status.
C26_StatusNotifications ==
  /\ [](\A r \in Runs :
          LET n == runs[r].notified IN
          /\ \A i \in 1..Len(n) :
               /\ n[i] \in {"thinking", "analyzing_tool_data", "executing_tool"}
               /\ n[i] = "thinking" <=> i = 1
               /\ n[i] = "executing_tool" => n[i - 1] # "executing_tool"
          /\ Cardinality(IterationStarts(n)) = runs[r].iteration)
  /\ [][\A r \in Runs :
          LET n == runs[r].notified
              m == runs'[r].notified
          IN
          /\ ( /\ runs[r].pc = "after_model" /\ ~runs[r].aborted
               /\ RequestsTool(runs[r].result) )
             => /\ m = Append(n, "executing_tool")
                /\ status' = "executing_tool"
                /\ runs'[r].pc = "tool_loop"
                /\ runs'[r].callIdx = 1
          /\ (runs[r].pc = "loop" /\ runs'[r].pc = "try_model")
             => /\ Len(m) = Len(n) + 1
                /\ Last(m) # "executing_tool"
                /\ status' = Last(m)
          /\ Len(m) > Len(n)
             => /\ Len(m) = Len(n) + 1
                /\ IF Last(m) = "executing_tool"
                   THEN /\ runs[r].pc = "after_model"
                        /\ RequestsTool(runs[r].result)
                   ELSE runs[r].pc = "loop" /\ runs'[r].pc = "try_model"
       ]_vars

\* the second iteration of a run has begun after an iteration with tools
C26_Witness ==
  \E r \in Runs :
    /\ runs[r].pc = "try_model"
    /\ runs[r].iteration = 2
    /\ runs[r].notified = <<"thinking", "executing_tool", "analyzing_tool_data">>

\* a rate-limit failure as the retry variant reads it: 429 as status or
\* code, or a 429 or quota marker in the message
IsRateLimitFailure(e) ==
  \/ e.status = 429
  \/ e.code = 429
  \/ e.message \cap {"429", "quota"} # {}

\* C27: one call of generateContentWithRetry sends at most four requests,
\* all to the agent's one model; the failure before each retry is a
\* rate-limit failure; the delays before the retries are 2000, 4000 and
\* 8000 ms; the call throws exactly when a request failed with another
\* kind of failure or the fourth request failed, and throws that last error.
C27_RetryWithBackoff ==
  LET n == Len(retry.requests)
      k == Len(retry.errors)
  IN
  /\ n <= 4
  /\ \A i \in 1..n : retry.requests[i] = "gemini-3-flash-preview"
  /\ Len(retry.delays) <= 3
  /\ retry.delays = SubSeq(<<2000, 4000, 8000>>, 1, Len(retry.delays))
  /\ \A i \in 1..Len(retry.delays) : IsRateLimitFailure(retry.errors[i])
  /\ retry.pc \in {"await_delay", "request"} => Len(retry.delays) = k
  /\ retry.pc = "await_delay" => n = k
  /\ retry.pc = "request" => n = k /\ retry.attempt = k + 1
  /\ retry.pc = "await_model" => n = k + 1 /\ Len(retry.delays) = k
  /\ retry.pc = "returned" => n = k + 1 /\ Len(retry.delays) = k
  /\ retry.pc = "threw"
     => /\ n = k
        /\ Len(retry.delays) = k - 1
        /\ retry.error = retry.errors[k]
        /\ ~IsRateLimitFailure(retry.errors[k]) \/ k = 4
  /\ (k = 4 \/ (k > 0 /\ ~IsRateLimitFailure(retry.errors[k])))
     => retry.pc = "threw"

\* the fourth request failed on the rate limit after the three delays
C27_Witness ==
  /\ retry.pc = "threw"
  /\ Len(retry.requests) = 4
  /\ retry.delays = <<2000, 4000, 8000>>
  /\ IsRateLimitFailure(retry.error)

\* handleStop changed the messages while the status was 'typing'
StopWhileTyping ==
  /\ cur = 0 /\ cur' = 0
  /\ budget' = budget
  /\ status = "typing" /\ status' = "idle"
  /\ messages' # messages

\* C28: a stop during the typing animation keeps the history, the runs, the
\* controller, the session and every message but the last; of the last
\* message it keeps role and data, stops the animation, and replaces the
\* text by a prefix of it followed by the stop marker.
C28_StopWhileTypingTouchesLastMessageOnly ==
  [][StopWhileTyping
     => /\ history' = history
        /\ runs' = runs
        /\ abortControllerRef' = abortControllerRef
        /\ currentSessionId' = currentSessionId
        /\ Len(messages') = Len(messages)
        /\ \A i \in 1..(Len(messages) - 1) : messages'[i] = messages[i]
        /\ Last(messages').role = Last(messages).role
        /\ Last(messages').stockData = Last(messages).stockData
        /\ ~Last(messages').shouldAnimate
        /\ \E k \in 0..Len(Last(messages).content) :
             Last(messages').content =
               SubSeq(Last(messages).content, 1, k) \o <<" ... (stopped)">>
    ]_vars

\* the answer "ab" was stopped after "a": the message is cut, the history
\* has the whole answer
C28_Witness ==
  /\ status = "idle"
  /\ cur = 0
  /\ Last(messages).content = <<"a", " ... (stopped)">>
  /\ ~Last(messages).shouldAnimate
  /\ history # <<>>
  /\ Last(history).role = "model"
  /\ ConcatText(Last(history).parts) = <<"a", "b">>

\* C29: starting a run appends its user turn to the history and nothing
\* else; afterwards no step of any run, cancelled or failed or neither,
\* removes or replaces a user turn of the history (the history changes
\* otherwise only when a session is opened).
C29_UserTurnIsKept ==
  [][/\ nruns' = nruns + 1
        => history' =
             Append(history,
                    [role |-> "user",
                     parts |-> <<TextPart(runs'[nruns'].userText)>>])
     /\ ~IsSessionStep
        => \A i \in 1..Len(history) :
             history[i].role = "user"
             => Len(history') >= i /\ history'[i] = history[i]
    ]_vars

\* the number of completed tool iterations whose summary a run holds
ToolSummariesHeld(run) == Cardinality(RoleIndexes(run.newMessages, "tool"))

\* the run r throws the abort at one of its checkpoints in this step
AbortThrown(r) ==
  /\ runs[r].pc \in {"loop", "after_model", "tool_loop"}
  /\ runs'[r].pc \in {"catch", "app_catch"}
  /\ runs'[r].error.name = "AbortError"

\* C30: when a run that holds the summaries of k >= 1 completed tool
\* iterations is cancelled, the steps from the checkpoint that throws to
\* the end of the run leave the history, with the turns of those
\* iterations, as it is, and the only message the caller gets is the
\* stopped notice: the summaries are dropped with the run.
C30_CancelledRunDropsItsSummaries ==
  [][\A r \in Runs :
       ToolSummariesHeld(runs[r]) >= 1
       => /\ AbortThrown(r)
             => /\ history' = history
                /\ messages' = messages
                /\ runs'[r].newMessages = runs[r].newMessages
          /\ (runs[r].pc = "catch" /\ runs[r].error.name = "AbortError")
             => /\ runs'[r].pc = "app_catch"
                /\ history' = history
                /\ messages' = messages
          /\ (runs[r].pc = "app_catch" /\ runs[r].error.name = "AbortError")
             => /\ runs'[r].outcome = "threw"
                /\ runs'[r].newMessages = <<>>
                /\ history' = history
                /\ messages' = Append(messages,
                                      Msg("model", MsgStopped, <<>>, FALSE))
    ]_vars

\* a run stopped during its second model call is about to end: it holds one
\* summary, and the history ends with the turns of its first iteration
C30_Witness ==
  \E r \in Runs :
    /\ runs[r].pc = "app_catch"
    /\ runs[r].error.name = "AbortError"
    /\ runs[r].iteration = 2
    /\ ToolSummariesHeld(runs[r]) = 1
    /\ Len(history) >= 3
    /\ IsToolResultTurn(Last(history))
    /\ IsToolRequestTurn(history[Len(history) - 1])

\* C31: the messages a run is about to return hold at most one model
\* message, which is then the last one; every other message is a tool
\* message; and there are at most five of them.
C31_ShapeOfReturnedMessages ==
  \A r \in Runs :
    runs[r].pc = "return"
    => LET ms == runs[r].newMessages IN
       /\ Len(ms) <= 5
       /\ Cardinality(RoleIndexes(ms, "model")) <= 1
       /\ \A i \in 1..Len(ms) :
            /\ ms[i].role \in {"model", "tool"}
            /\ ms[i].role = "model" => i = Len(ms)

\* a run returns four tool summaries and the answer of its fifth iteration
C31_Witness ==
  \E r \in Runs :
    /\ runs[r].pc = "return"
    /\ runs[r].iteration = 5
    /\ Len(runs[r].newMessages) = 5
    /\ Last(runs[r].newMessages).role = "model"
    /\ runs[r].newMessages[4].role = "tool"

\* C32: a run whose cancellation has been requested sends no request to
\* the model transport and starts no tool.
C32_NoCallAfterCancellation ==
  [][\A r \in Runs :
       /\ (runs[r].pc = "try_model" /\ runs'[r].pc = "await_model")
          => ~runs[r].aborted
       /\ (runs[r].pc = "tool_loop" /\ runs'[r].pc = "await_tool")
          => ~runs[r].aborted
    ]_vars

\* a run that handleSendMessage has started and that has not ended
Started(run) == run.pc \notin {"unborn", "done"}

\* C33: while a run is in flight and not cancelled, abortControllerRef
\* holds the controller of that run.
C33_ControllerOfTheRunInFlight ==
  \A r \in Runs :
    (Started(runs[r]) /\ ~runs[r].aborted) => abortControllerRef = r

\* the run r ends in this step: handleSendMessage shows what it returned,
\* or the stopped notice
RunEnds(r) == runs[r].pc \in {"return", "app_catch"} /\ runs'[r].pc = "done"

\* C34: a run that ends when another session than the one it was started
\* in is selected adds nothing to the messages shown.
C34_MessagesStayInTheirSession ==
  [][\A r \in Runs :
       (RunEnds(r) /\ runs[r].session # currentSessionId)
       => messages' = messages
    ]_vars

\* the run r, started in another session than the one selected, takes a
\* step of its own
StaleRunStep(r) ==
  /\ Started(runs[r])
  /\ runs[r].session # currentSessionId
  /\ runs'[r] # runs[r]
  /\ currentSessionId' = currentSessionId

\* C35: once the agent was reset or seeded for another session, the run
\* started before writes nothing to the history.
C35_NoHistoryWriteAfterReset ==
  [][\A r \in Runs : StaleRunStep(r) => history' = history]_vars

\* the exploration, not the program, keeps a run from its next request
BudgetExhausted ==
  \E r \in Runs :
    /\ runs[r].pc = "try_model"
    /\ runs[r].modelIdx <= Len(models)
    /\ budget.calls = 0

\* C36: when every invocation goes on and the typewriter reaches the end,
\* a status other than 'idle' is followed by 'idle'.
C36_StatusReturnsToIdle ==
  (status # "idle") ~> (status = "idle" \/ BudgetExhausted)

=============================================================================
